---------------------------- MODULE Spec2Model ----------------------------
(***************************************************************************)
(* A model of src/app.py: the LINE-webhook-to-spreadsheet relay.           *)
(*                                                                         *)
(* Two specifications are given over the same variables.                   *)
(*                                                                         *)
(*   Spec       the process as it runs: the module body is executed top    *)
(*              to bottom from line 19.  Line 140 evaluates                *)
(*              handler.add(...) while handler is still the None of line   *)
(*              29 (initialize_line_bot is first called at line 171/189),  *)
(*              so the module body ends there with an AttributeError.      *)
(*                                                                         *)
(*   SpecServe  the functions initialize_line_bot,                         *)
(*              initialize_google_sheets, home, health, webhook,           *)
(*              handle_text_message and write_to_sheet, run from the       *)
(*              state their code presupposes: the module body completed    *)
(*              up to line 168 and handle_text_message is the function     *)
(*              the dispatcher calls for a text-message event.  No run of  *)
(*              Spec reaches that state; SpecServe says what the           *)
(*              functions do, not that the process gets to run them.       *)
(***************************************************************************)
EXTENDS Integers, Sequences, FiniteSets, TLC

VARIABLES
    env,            \* os.environ of the process, fixed at its start
    config,         \* the module constants of lines 19-25
    pc,             \* position in the module body / life of the process
    routes,         \* the routes registered with the Flask app
    registered,     \* handle_text_message is in the dispatcher's table
    line_bot_api,   \* global of line 28
    handler,        \* global of line 29
    sheets_client,  \* global of line 30
    cur,            \* the HTTP request the worker is handling
    prev            \* the delivery before, when cur is a redelivery of it

vars == <<env, config, pc, routes, registered, line_bot_api, handler,
          sheets_client, cur, prev>>

(***************************************************************************)
(* Bounds of the model.                                                    *)
(***************************************************************************)
MaxEvents == 2      \* events in one webhook payload

(***************************************************************************)
(* Values.                                                                 *)
(***************************************************************************)
None == "None"
Undefined == "undefined"          \* a global name not yet bound
LineBotApiObj == "LineBotApi"
WebhookHandlerObj == "WebhookHandler"
GspreadClientObj == "gspread.Client"

\* os.environ.get(name): None when the variable is absent.
EnvValues == {None, "set"}
\* GOOGLE_CREDENTIALS_JSON: absent, a text json.loads or
\* from_service_account_info rejects, or a service-account document.
CredValues == {None, "malformed", "valid"}

Environments ==
    [LINE_CHANNEL_ACCESS_TOKEN : EnvValues,
     LINE_CHANNEL_SECRET       : EnvValues,
     GOOGLE_SPREADSHEET_ID     : EnvValues,
     GOOGLE_CREDENTIALS_JSON   : CredValues]

\* Python truthiness of a configuration value (lines 36 and 52).
Truthy(v) == v # None

(***************************************************************************)
(* Requests.                                                               *)
(***************************************************************************)
\* The events a payload may carry: text messages, a text message whose
\* source is missing (event.source is None), and an event of another type.
TextEvents ==
    {[kind |-> "text", user |-> "U1", text |-> "hello"],
     [kind |-> "text", user |-> "U2", text |-> "bye"]}
NoSourceEvent == [kind |-> "text", user |-> None, text |-> "lost"]
OtherEvent == [kind |-> "follow", user |-> "U1", text |-> None]
Events == TextEvents \cup {NoSourceEvent, OtherEvent}

SeqsUpTo(S, n) == UNION {[1..k -> S] : k \in 0..n}

\* A request body: a payload the parser accepts, with its events, or a text
\* the parser rejects.
Bodies ==
    {[parses |-> TRUE, events |-> es] : es \in SeqsUpTo(Events, MaxEvents)}
    \cup {[parses |-> FALSE, events |-> <<>>]}

\* The display names the profile API may return (any user may bear the
\* name), and what stands for a failed lookup (line 152).
DisplayNames == {"Alice"}
UnknownUser == "Unknown User"
\* The values datetime.now().strftime('%Y-%m-%d %H:%M:%S') may take.
Timestamps == {"2024-01-01 10:00:00", "2024-01-01 10:00:01"}

NoResponse == <<0, "">>
NoJson == [status |-> "none"]

\* No request in hand.
Idle ==
    [route |-> "none", st |-> "idle", body |-> [parses |-> FALSE, events |-> <<>>],
     sig |-> FALSE, idx |-> 0,
     user_id |-> None, display_name |-> None, message_text |-> None,
     profile |-> None, handled |-> <<>>, looked |-> <<>>, written |-> <<>>,
     calls |-> 0, succ |-> 0, rows |-> <<>>, resp |-> NoResponse,
     json |-> NoJson]

NoPrev == [body |-> [parses |-> FALSE, events |-> <<>>], sig |-> FALSE,
           resp |-> NoResponse, rows |-> <<>>, succ |-> 0]

(***************************************************************************)
(* The module body, lines 19-166.                                          *)
(***************************************************************************)
\* The process starts: nothing of the module body has run.
InitProcess ==
    /\ env \in Environments
    /\ config = Undefined
    /\ pc = "l19"
    /\ routes = {}
    /\ registered = FALSE
    /\ line_bot_api = Undefined
    /\ handler = Undefined
    /\ sheets_client = Undefined
    /\ cur = Idle
    /\ prev = NoPrev

\* Lines 19-25: the configuration is read from the environment.
LoadConfig ==
    /\ pc = "l19"
    /\ config' = env
    /\ pc' = "l28"
    /\ UNCHANGED <<env, routes, registered, line_bot_api, handler,
                   sheets_client, cur, prev>>

\* Lines 28-30.
InitGlobals ==
    /\ pc = "l28"
    /\ line_bot_api' = None
    /\ handler' = None
    /\ sheets_client' = None
    /\ pc' = "l103"
    /\ UNCHANGED <<env, config, routes, registered, cur, prev>>

\* Where the module body goes on after a route decorator.
AfterRoute(at) ==
    CASE at = "l103" -> "l113"
      [] at = "l113" -> "l118"
      [] at = "l118" -> "l140"

RouteAt(at) ==
    CASE at = "l103" -> "/"
      [] at = "l113" -> "/health"
      [] at = "l118" -> "/webhook"

\* Lines 103, 113, 118: @app.route(...).
RegisterRoute ==
    /\ pc \in {"l103", "l113", "l118"}
    /\ routes' = routes \cup {RouteAt(pc)}
    /\ pc' = AfterRoute(pc)
    /\ UNCHANGED <<env, config, registered, line_bot_api, handler,
                   sheets_client, cur, prev>>

\* Line 140: @handler.add(MessageEvent, message=TextMessage).  The decorator
\* expression is evaluated on the value handler has at that point; on None
\* it raises AttributeError, nothing catches it, and the module body ends.
RegisterOutcome(h) == IF h = None THEN "crashed" ELSE "l169"

RegisterTextMessageHandler ==
    /\ pc = "l140"
    /\ pc' = RegisterOutcome(handler)
    /\ registered' = (RegisterOutcome(handler) # "crashed")
    /\ UNCHANGED <<env, config, routes, line_bot_api, handler,
                   sheets_client, cur, prev>>

(***************************************************************************)
(* initialize_line_bot, lines 32-46, called at line 171 or 189.            *)
(***************************************************************************)
\* The globals after the call: apiOk and handlerOk say whether
\* LineBotApi(...) and WebhookHandler(...) return or raise.
LineGlobalsAfter(cfg, apiOk, handlerOk, api, h) ==
    IF Truthy(cfg.LINE_CHANNEL_ACCESS_TOKEN) /\ Truthy(cfg.LINE_CHANNEL_SECRET)
    THEN IF ~apiOk THEN <<api, h>>
         ELSE IF ~handlerOk THEN <<LineBotApiObj, h>>
         ELSE <<LineBotApiObj, WebhookHandlerObj>>
    ELSE <<api, h>>

initialize_line_bot ==
    /\ pc = "l169"
    /\ \E apiOk \in BOOLEAN, handlerOk \in BOOLEAN :
          LET g == LineGlobalsAfter(config, apiOk, handlerOk,
                                    line_bot_api, handler)
          IN  /\ line_bot_api' = g[1]
              /\ handler' = g[2]
    /\ pc' = "l172"
    /\ UNCHANGED <<env, config, routes, registered, sheets_client, cur, prev>>

(***************************************************************************)
(* initialize_google_sheets, lines 48-76, called at line 172 or 190.       *)
(***************************************************************************)
\* authOk says whether gspread.authorize(...) returns or raises.
SheetsClientAfter(cfg, authOk, client) ==
    IF Truthy(cfg.GOOGLE_CREDENTIALS_JSON)
    THEN IF cfg.GOOGLE_CREDENTIALS_JSON = "valid" /\ authOk
         THEN GspreadClientObj
         ELSE client
    ELSE client

initialize_google_sheets ==
    /\ pc = "l172"
    /\ \E authOk \in BOOLEAN :
          sheets_client' = SheetsClientAfter(config, authOk, sheets_client)
    /\ pc' = "serving"
    /\ UNCHANGED <<env, config, routes, registered, line_bot_api, handler,
                   cur, prev>>

(***************************************************************************)
(* home and health, lines 103-116.                                         *)
(***************************************************************************)
home_json(api, client) ==
    [message |-> "LINE to Sheets System is running on Render.com",
     status |-> "ok",
     line_configured |-> (api # None),
     sheets_configured |-> (client # None)]

health_json == [status |-> "healthy"]

\* GET /: jsonify(...) answers 200.
home ==
    /\ pc = "serving"
    /\ cur.st = "idle"
    /\ "/" \in routes
    /\ cur' = [Idle EXCEPT !.route = "/", !.st = "sent",
                           !.resp = <<200, "json">>,
                           !.json = home_json(line_bot_api, sheets_client)]
    /\ UNCHANGED <<env, config, pc, routes, registered, line_bot_api,
                   handler, sheets_client, prev>>

\* GET /health.
health ==
    /\ pc = "serving"
    /\ cur.st = "idle"
    /\ "/health" \in routes
    /\ cur' = [Idle EXCEPT !.route = "/health", !.st = "sent",
                           !.resp = <<200, "json">>,
                           !.json = health_json]
    /\ UNCHANGED <<env, config, pc, routes, registered, line_bot_api,
                   handler, sheets_client, prev>>

(***************************************************************************)
(* webhook, lines 118-138.                                                 *)
(***************************************************************************)
NotInitializedResponse == <<500, "LINE handler not initialized">>
OkResponse == <<200, "OK">>

\* Mutation: the except clause of lines 133-135 is left out.
ExceptResponse_Always500(exc) == <<500, "Internal server error">>

\* The except clauses of lines 133-138.
ExceptResponse(exc) ==
    IF exc = "InvalidSignatureError"
    THEN <<400, "Invalid signature">>
    ELSE <<500, "Internal server error">>

\* Lines 123-124: the signature header and the body are read.  sig says
\* whether the header is the digest of the body under the channel secret.
ReceiveWebhook ==
    /\ pc = "serving"
    /\ cur.st = "idle"
    /\ "/webhook" \in routes
    /\ \E body \in Bodies, sig \in BOOLEAN :
          cur' = [Idle EXCEPT !.route = "/webhook", !.st = "l126",
                              !.body = body, !.sig = sig]
    /\ UNCHANGED <<env, config, pc, routes, registered, line_bot_api,
                   handler, sheets_client, prev>>

\* Mutation: the test of line 126 is left out.
CheckHandlerStep_NoGuard(r, h) == [r EXCEPT !.st = "l130"]

\* Lines 126-128: if not handler.
CheckHandlerStep(r, h) ==
    IF h = None
    THEN [r EXCEPT !.st = "sent", !.resp = NotInitializedResponse]
    ELSE [r EXCEPT !.st = "l130"]

CheckHandler ==
    /\ cur.st = "l126"
    /\ cur' = CheckHandlerStep(cur, handler)
    /\ UNCHANGED <<env, config, pc, routes, registered, line_bot_api,
                   handler, sheets_client, prev>>

\* Mutation: the body is parsed and dispatched without the signature check.
ParseStep_NoSignatureCheck(r) ==
    IF ~r.body.parses
    THEN [r EXCEPT !.st = "sent", !.resp = ExceptResponse("Exception")]
    ELSE [r EXCEPT !.st = "loop", !.idx = 1]

\* Line 130, handler.handle(body, signature), up to its loop over the
\* events: the parser validates the signature, then parses the body.
ParseStep(r) ==
    IF ~r.sig
    THEN [r EXCEPT !.st = "sent",
                   !.resp = ExceptResponse("InvalidSignatureError")]
    ELSE IF ~r.body.parses
    THEN [r EXCEPT !.st = "sent", !.resp = ExceptResponse("Exception")]
    ELSE [r EXCEPT !.st = "loop", !.idx = 1]

Parse ==
    /\ cur.st = "l130"
    /\ cur' = ParseStep(cur)
    /\ UNCHANGED <<env, config, pc, routes, registered, line_bot_api,
                   handler, sheets_client, prev>>

\* Mutation: the answer is given once the first event is done.
LoopDone_AfterFirst(r) == r.idx > Len(r.body.events) \/ r.idx > 1

\* The dispatcher's loop is over.
LoopDone(r) == r.idx > Len(r.body.events)

\* Line 130, the dispatcher's loop: the next event goes to the function
\* registered for it (handle_text_message for a text message), an event
\* with no registered function is passed over; after the last event
\* handler.handle returns.
LoopStep(r, reg) ==
    IF LoopDone(r)
    THEN [r EXCEPT !.st = "l131"]
    ELSE IF r.body.events[r.idx].kind = "text" /\ reg
    THEN [r EXCEPT !.st = "l145", !.handled = Append(@, r.idx)]
    ELSE [r EXCEPT !.idx = @ + 1]

Loop ==
    /\ cur.st = "loop"
    /\ cur' = LoopStep(cur, registered)
    /\ UNCHANGED <<env, config, pc, routes, registered, line_bot_api,
                   handler, sheets_client, prev>>

\* Line 131.
RespondOkStep(r) == [r EXCEPT !.st = "sent", !.resp = OkResponse]

RespondOk ==
    /\ cur.st = "l131"
    /\ cur' = RespondOkStep(cur)
    /\ UNCHANGED <<env, config, pc, routes, registered, line_bot_api,
                   handler, sheets_client, prev>>

(***************************************************************************)
(* handle_text_message, lines 141-166.                                     *)
(***************************************************************************)
\* handle_text_message returns to the dispatcher's loop; its locals go.
Return(r) ==
    [r EXCEPT !.st = "loop", !.idx = @ + 1, !.user_id = None,
              !.display_name = None, !.message_text = None]

\* Line 145: event.source.user_id.  On an event without a source this
\* raises AttributeError, which the except of lines 165-166 logs.
UserIdStep(r) ==
    LET e == r.body.events[r.idx]
    IN  IF e.user = None
        THEN Return(r)
        ELSE [r EXCEPT !.st = "l149", !.user_id = e.user]

UserId ==
    /\ cur.st = "l145"
    /\ cur' = UserIdStep(cur)
    /\ UNCHANGED <<env, config, pc, routes, registered, line_bot_api,
                   handler, sheets_client, prev>>

\* Lines 148-152: res is what line_bot_api.get_profile(user_id) does, a
\* display name or "raise"; on None the attribute lookup itself raises.
ProfileResult(api, res) == IF api = None THEN "raise" ELSE res

DisplayNameOf(result) == IF result = "raise" THEN UnknownUser ELSE result

ProfileStep(r, api, res) ==
    [r EXCEPT !.st = "l155",
              !.profile = ProfileResult(api, res),
              !.display_name = DisplayNameOf(ProfileResult(api, res)),
              !.looked = Append(@, r.idx)]

Profile ==
    /\ cur.st = "l149"
    /\ \E res \in DisplayNames \cup {"raise"} :
          cur' = ProfileStep(cur, line_bot_api, res)
    /\ UNCHANGED <<env, config, pc, routes, registered, line_bot_api,
                   handler, sheets_client, prev>>

\* Line 155.
TextStep(r) ==
    [r EXCEPT !.st = "l158", !.message_text = r.body.events[r.idx].text]

Text ==
    /\ cur.st = "l155"
    /\ cur' = TextStep(cur)
    /\ UNCHANGED <<env, config, pc, routes, registered, line_bot_api,
                   handler, sheets_client, prev>>

(***************************************************************************)
(* write_to_sheet, lines 78-101.                                           *)
(***************************************************************************)
\* Mutation: the display name and the user id change places.
RowData_Swapped(timestamp, user_id, display_name, message_text) ==
    <<timestamp, display_name, user_id, message_text>>

\* Line 93.
RowData(timestamp, user_id, display_name, message_text) ==
    <<timestamp, user_id, display_name, message_text>>

\* What the spreadsheet API does with the call: "open_raises" (open_by_key
\* or worksheet raises, lines 86-87), "append_raises" (append_row raises,
\* line 94) or "ok".  Without a spreadsheet id open_by_key raises.
SheetOutcomes(cfg) ==
    IF Truthy(cfg.GOOGLE_SPREADSHEET_ID)
    THEN {"open_raises", "append_raises", "ok"}
    ELSE {"open_raises"}

\* Mutation: neither try block catches a failed write, so it reaches the
\* except clause of lines 136-138.
WriteStep_Propagates(r, client, outcome, timestamp) ==
    LET row == <<timestamp, r.user_id, r.display_name, r.message_text>>
        called == [r EXCEPT !.written = Append(@, r.idx)]
    IN  IF client = None
        THEN Return(called)
        ELSE IF outcome = "open_raises"
        THEN [called EXCEPT !.st = "sent",
                            !.resp = <<500, "Internal server error">>]
        ELSE IF outcome = "append_raises"
        THEN [called EXCEPT !.calls = @ + 1, !.st = "sent",
                            !.resp = <<500, "Internal server error">>]
        ELSE Return([called EXCEPT !.calls = @ + 1,
                                   !.rows = Append(@, row),
                                   !.succ = @ + 1])

\* Mutation: append_row is called a second time after it raised.
WriteStep_Retry(r, client, outcome, timestamp) ==
    LET row == <<timestamp, r.user_id, r.display_name, r.message_text>>
        called == [r EXCEPT !.written = Append(@, r.idx)]
    IN  IF client = None
        THEN Return(called)
        ELSE IF outcome = "open_raises"
        THEN Return(called)
        ELSE IF outcome = "append_raises"
        THEN Return([called EXCEPT !.calls = @ + 2])
        ELSE Return([called EXCEPT !.calls = @ + 1,
                                   !.rows = Append(@, row),
                                   !.succ = @ + 1])

\* Mutation: a message the previous delivery already wrote is not written
\* again.
WriteStep_Dedup(r, client, outcome, timestamp) ==
    LET row == <<timestamp, r.user_id, r.display_name, r.message_text>>
        called == [r EXCEPT !.written = Append(@, r.idx)]
        seen == \E i \in 1..Len(prev.rows) :
                    /\ prev.rows[i][2] = r.user_id
                    /\ prev.rows[i][4] = r.message_text
    IN  IF client = None
        THEN Return(called)
        ELSE IF outcome = "open_raises"
        THEN Return(called)
        ELSE IF outcome = "append_raises"
        THEN Return([called EXCEPT !.calls = @ + 1])
        ELSE IF seen
        THEN Return([called EXCEPT !.succ = @ + 1])
        ELSE Return([called EXCEPT !.calls = @ + 1,
                                   !.rows = Append(@, row),
                                   !.succ = @ + 1])

\* Lines 158-163 with write_to_sheet: the call of line 158, its result, and
\* the return of handle_text_message after the log line.
WriteStep(r, client, outcome, timestamp) ==
    LET row == RowData(timestamp, r.user_id, r.display_name, r.message_text)
        called == [r EXCEPT !.written = Append(@, r.idx)]
    IN  IF client = None
        THEN Return(called)
        ELSE IF outcome = "open_raises"
        THEN Return(called)
        ELSE IF outcome = "append_raises"
        THEN Return([called EXCEPT !.calls = @ + 1])
        ELSE Return([called EXCEPT !.calls = @ + 1,
                                   !.rows = Append(@, row),
                                   !.succ = @ + 1])

Write ==
    /\ cur.st = "l158"
    /\ \E outcome \in SheetOutcomes(config), timestamp \in Timestamps :
          cur' = WriteStep(cur, sheets_client, outcome, timestamp)
    /\ UNCHANGED <<env, config, pc, routes, registered, line_bot_api,
                   handler, sheets_client, prev>>

(***************************************************************************)
(* The response is sent.  The sender may deliver the same request again.   *)
(***************************************************************************)
Summary(r) ==
    [body |-> r.body, sig |-> r.sig, resp |-> r.resp, rows |-> r.rows,
     succ |-> r.succ]

\* The request is over; the worker takes whatever comes next.
Finish ==
    /\ cur.st = "sent"
    /\ prev' = NoPrev
    /\ cur' = Idle
    /\ UNCHANGED <<env, config, pc, routes, registered, line_bot_api,
                   handler, sheets_client>>

\* The request is over and the next one is the same body under the same
\* signature header (lines 123-124 again); prev keeps what the delivery
\* before did.
Redeliver ==
    /\ cur.st = "sent"
    /\ cur.route = "/webhook"
    /\ prev' = Summary(cur)
    /\ cur' = [Idle EXCEPT !.route = "/webhook", !.st = "l126",
                           !.body = cur.body, !.sig = cur.sig]
    /\ UNCHANGED <<env, config, pc, routes, registered, line_bot_api,
                   handler, sheets_client>>

(***************************************************************************)
(* Specifications.                                                         *)
(***************************************************************************)
\* The module body.  Its last step leaves pc = "crashed" (handler is the
\* None of line 29 when line 140 is reached), so lines 168-190 and the
\* request handlers are no steps of the process.
Next ==
    \/ LoadConfig
    \/ InitGlobals
    \/ RegisterRoute
    \/ RegisterTextMessageHandler

Spec == InitProcess /\ [][Next]_vars

\* The state the functions are written for: the module body done up to line
\* 168, the globals as lines 28-30 leave them, handle_text_message
\* registered for text messages.
InitServe ==
    /\ env \in Environments
    /\ config = env
    /\ pc = "l169"
    /\ routes = {"/", "/health", "/webhook"}
    /\ registered = TRUE
    /\ line_bot_api = None
    /\ handler = None
    /\ sheets_client = None
    /\ cur = Idle
    /\ prev = NoPrev

NextServe ==
    \/ initialize_line_bot
    \/ initialize_google_sheets
    \/ home
    \/ health
    \/ ReceiveWebhook
    \/ CheckHandler
    \/ Parse
    \/ Loop
    \/ UserId
    \/ Profile
    \/ Text
    \/ Write
    \/ RespondOk
    \/ Finish
    \/ Redeliver

SpecServe == InitServe /\ [][NextServe]_vars

\* The process with every function of the module as a possible step: it
\* has the runs of Spec and no others, since no step of NextServe is ever
\* enabled (NeverServes).
SpecProgram == InitProcess /\ [][Next \/ NextServe]_vars

NeverServes == pc \notin {"l169", "l172", "serving"} /\ cur = Idle

(***************************************************************************)
(* Properties.                                                             *)
(***************************************************************************)
Elems(s) == {s[i] : i \in 1..Len(s)}
Increasing(s) == \A i, j \in 1..Len(s) : i < j => s[i] < s[j]
IsPrefix(s, t) == Len(s) <= Len(t) /\ s = SubSeq(t, 1, Len(s))
InHandler(r) == r.st \in {"l145", "l149", "l155", "l158"}
\* The positions of the text-message events of a body, in payload order.
TextIdx(body) ==
    SelectSeq([i \in 1..Len(body.events) |-> i],
              LAMBDA i : body.events[i].kind = "text")
\* The positions of the text-message events that have a source.
SourcedIdx(body) ==
    SelectSeq(TextIdx(body), LAMBDA i : body.events[i].user # None)
\* The request in hand is a POST /webhook.
Hook == cur.route = "/webhook"
\* The dispatcher exists, the signature matches and the body parses.
Verified(r) == handler # None /\ r.sig /\ r.body.parses
\* The body is one text-message event with a user id and a text.
OneText(body) ==
    body.parses /\ Len(body.events) = 1 /\ body.events[1] \in TextEvents

\* C1: the startup sequence (globals set to None, the routes and the
\* text-message handler registered, then the two initializers) never ends
\* with an unhandled error, whatever the environment holds.
C1_StartupNeverCrashes == pc # "crashed"

\* C2: while handler is None every POST /webhook is answered 500 "LINE
\* handler not initialized", whatever its body and signature, and the
\* request never gets to the dispatch of line 130.
C2_UninitializedAnswers500 ==
    /\ (Hook /\ handler = None) =>
          /\ cur.st \in {"l126", "sent"}
          /\ cur.idx = 0
          /\ cur.handled = <<>>
          /\ cur.st = "sent" => cur.resp = <<500, "LINE handler not initialized">>
    /\ (handler = None /\ prev # NoPrev) =>
          prev.resp = <<500, "LINE handler not initialized">>

C2_Witness ==
    /\ Hook /\ cur.st = "sent" /\ handler = None
    /\ cur.sig /\ Len(cur.body.events) = 2
    /\ cur.resp = <<500, "LINE handler not initialized">>
    /\ prev # NoPrev

\* C3: with a dispatcher, the answer of POST /webhook is fixed by the
\* outcome of verify-and-dispatch: 400 "Invalid signature" on a bad
\* signature, 500 "Internal server error" on any other exception, 200 "OK"
\* when the dispatch returns; a request has no answer before it ends and
\* exactly that one when it does.
C3_ExpectedResponse(r) ==
    IF ~r.sig THEN <<400, "Invalid signature">>
    ELSE IF ~r.body.parses THEN <<500, "Internal server error">>
    ELSE <<200, "OK">>

C3_ResponseByOutcome ==
    /\ (Hook /\ handler # None) =>
          IF cur.st = "sent"
          THEN cur.resp = C3_ExpectedResponse(cur)
          ELSE cur.resp = NoResponse
    /\ (handler # None /\ prev # NoPrev) =>
          prev.resp = C3_ExpectedResponse(prev)

C3_Witness ==
    /\ Hook /\ handler # None /\ cur.st = "sent"
    /\ cur.resp = <<500, "Internal server error">>
    /\ prev.resp = <<500, "Internal server error">>

C5_RowIsRight(r) ==
    /\ Len(r.rows) = 1
    /\ Len(r.rows[1]) = 4
    /\ r.rows[1][1] \in Timestamps
    /\ r.rows[1][2] = r.body.events[1].user
    /\ r.rows[1][3] = (IF r.profile \in DisplayNames THEN r.profile
                       ELSE "Unknown User")
    /\ r.rows[1][4] = r.body.events[1].text

C7_HomeReflectsAdapters ==
    /\ (cur.route \in {"/", "/health"} /\ cur.st = "sent") => cur.resp[1] = 200
    /\ (cur.route = "/" /\ cur.st = "sent") =>
          /\ cur.json.line_configured =
                (handler # None /\ line_bot_api # None)
          /\ cur.json.sheets_configured = (sheets_client # None)

\* The same verified one-event payload delivered twice in a row, both
\* writes succeeding.
C8_Replayed ==
    /\ Hook /\ cur.st = "sent" /\ Verified(cur) /\ OneText(cur.body)
    /\ Verified(prev) /\ prev.body = cur.body
    /\ prev.succ = 1 /\ cur.succ = 1

C10_NothingForUnverified ==
    /\ Hook =>
          /\ (cur.resp = <<400, "Invalid signature">>
                \/ cur.resp = <<500, "LINE handler not initialized">>) =>
                /\ cur.handled = <<>> /\ cur.looked = <<>>
                /\ cur.written = <<>> /\ cur.calls = 0 /\ cur.rows = <<>>
          /\ (cur.looked # <<>> \/ cur.written # <<>> \/ cur.calls > 0
                \/ cur.rows # <<>>) =>
                (handler # None /\ cur.sig)
    /\ prev.rows # <<>> => (handler # None /\ prev.sig)

C10_Witness ==
    /\ Hook /\ cur.st = "sent" /\ cur.resp = <<400, "Invalid signature">>
    /\ handler # None /\ sheets_client # None
    /\ cur.body.events = <<[kind |-> "text", user |-> "U1", text |-> "hello"],
                           [kind |-> "text", user |-> "U2", text |-> "bye"]>>

=============================================================================
